---- MODULE Spec2Model ----
(***************************************************************************)
(* Live-stream transcode supervisor of the camera dashboard:               *)
(*   app/api/stream/[id]/route.ts   GET (start) and DELETE (stop)          *)
(*   app/api/media/live/[...path]   GET (delivery of manifest/segments)    *)
(*   app/api/cameras/route.ts       POST (create) and generateStreamUrl    *)
(*   models/camera                  schema defaults and getFullRtspUrl     *)
(* Node runs each handler on one event loop: the code between two awaits   *)
(* is one atomic action; handlers of different requests interleave at the  *)
(* awaits.                                                                 *)
(***************************************************************************)
EXTENDS Integers, Sequences, FiniteSets, TLC

\* ---------------------------------------------------------------- bounds
MaxReq == 2
MaxProcs == 2
MaxPolls == 2
MaxProbes == 2
MaxClock == 6
MaxChecks == 11

\* StreamManager.maxConcurrentStreams is 16 in the source; the manager only
\* compares streams.size with it, and the model runs it with a limit of 2
\* and one camera more than the limit
maxConcurrentStreams == 2

\* camera directories under media/live, and the ids start requests name
Cams == {"cam1", "cam2"}

IDs == {"cam1"}

Req == 1..MaxReq

\* connection probes that run at the same time
Probes == 1..MaxProbes

VARIABLES
    activeStreams,  \* Map<string, {ffmpeg, hlsUrl}>: stream id -> session
    procs,          \* every transcoder ChildProcess spawned so far
    files,          \* media/live/<id>/: directory, index.m3u8, segment_*.ts
    pc,             \* await point each GET /api/stream/{id} request is at
    cam,            \* params.id of each request
    own,            \* the const `ffmpeg` of each request (0: none spawned)
    polls,          \* sleeps completed by waitForFiles of each request
    resp,           \* response of each request
    stopDuring,     \* a DELETE for cam[r] ran while request r was starting up
    stopped,        \* status of the last DELETE /api/stream/{id} response
    served,         \* outcome of the last GET /api/media/live/...
    build,          \* revision of models/camera.ts the server is built with
    desc,           \* JSON body of POST /api/cameras
    cpc,            \* step of the create-then-start scenario
    posted,         \* status of the POST /api/cameras response
    streamUrl,      \* data.stream_url after the POST handler filled it in
    saved,          \* the stored Camera document
    started,        \* status of the GET /api/stream/{id} response
    pullUrl,        \* rtspUrl = camera.getFullRtspUrl()
    probed,         \* input url of the ffmpeg of testCameraConnection
    spawned,        \* input url of the ffmpeg of startFFmpeg
    testProc,       \* the ffmpeg child of each testCameraConnection call
    didResolve,     \* its didResolve flag
    timer,          \* its 8 s timeout
    resolved,       \* the values resolve() was called with, in order
    seen,           \* the events delivered to its callbacks, in order
    streams,        \* StreamManager.streams, in insertion order
    now,            \* Date.now() of the browser, in minutes
    cleanupInterval,\* the sweep interval is set
    lastOp,         \* the StreamManager method that ran last
    healthStatuses, \* useCameraHealth: camera id -> CameraHealthStatus
    checks,         \* health-check results applied so far
    failedSince,    \* failed results since the last successful one
    lastResult,     \* the result applied last
    errors          \* every error recorded so far, oldest first

camVars == <<build, desc, cpc, posted, streamUrl, saved, started, pullUrl,
             probed, spawned>>

streamVars == <<activeStreams, procs, files, pc, cam, own, polls, resp,
                stopDuring, stopped, served>>

probeVars == <<testProc, didResolve, timer, resolved, seen>>

smVars == <<streams, now, cleanupInterval, lastOp>>

healthVars == <<healthStatuses, checks, failedSince, lastResult, errors>>

auxVars == <<probeVars, smVars, healthVars>>

vars == <<streamVars, camVars, auxVars>>

\* ------------------------------------------------------------- responses
NoResp == [status |-> 0, url |-> <<>>, error |-> ""]

\* the `error` text of the error responses of GET /api/stream/{id}; the
\* catch block answers 500 with error.message || "Failed to get stream"
ErrorText(code) ==
    CASE code = 401 -> "Authentication required"
      [] code = 404 -> "Camera not found or access denied"
      [] code = 400 -> "Cannot connect to camera stream"
      [] code = 504 -> "Timed out waiting for stream to start"
      [] OTHER -> "Failed to get stream"

Json(code) == [status |-> code, url |-> <<>>, error |-> ErrorText(code)]

\* the answer when `ffmpeg -version` fails
ToolUnavailable ==
    [status |-> 500, url |-> <<>>, error |-> "FFmpeg not available on server"]

HlsUrl(id) == <<"api", "media", "live", id, "index.m3u8">>

Active(u) == [status |-> 200, url |-> u, error |-> ""]

\* ------------------------------------------------------- child processes
NewProc(id) == [id |-> id, alive |-> TRUE, killed |-> FALSE, code |-> -1,
                ready |-> FALSE]

KillSkipped(ps, p) == ps

\* ChildProcess.kill(): the signal is delivered, and `killed` set, only
\* while the process has not exited yet.
Kill(ps, p) ==
    IF ps[p].alive
    THEN [ps EXCEPT ![p].alive = FALSE, ![p].killed = TRUE]
    ELSE ps

\* ----------------------------------------------------------- session map
MapSet(m, id, e) == [x \in DOMAIN m \cup {id} |-> IF x = id THEN e ELSE m[x]]

MapDeleteKept(m, id) == m

MapDelete(m, id) == [x \in DOMAIN m \ {id} |-> m[x]]

StillRunningInverted(m, ps, id) == id \in DOMAIN m /\ ps[m[id].ffmpeg].killed

StillRunningNever(m, ps, id) == FALSE

\* existingStream && !existingStream.ffmpeg.killed
StillRunning(m, ps, id) == id \in DOMAIN m /\ ~ps[m[id].ffmpeg].killed

\* ------------------------------------------------------------ artifacts
NoFiles == [dir |-> FALSE, manifest |-> "absent", seg |-> FALSE]

HasFilesManifestOnly(f) == f.manifest # "absent"

\* one iteration of the file test in waitForFiles
HasFiles(f) == f.manifest # "absent" /\ f.manifest # "empty" /\ f.seg

\* ---------------------------------------------------- camera descriptors
\* A JavaScript string is the sequence of its lexical tokens: "rtsp://",
\* "http://", "https://", ":" and "@" are tokens of their own and "" is
\* << >>.  An optional field is << >> when undefined, <<v>> when it is v.
None == << >>

Some(v) == <<v>>

\* JavaScript truthiness of an optional string and of an optional number
TruthyStr(o) == o # None /\ o[1] # << >>

TruthyNum(o) == o # None /\ o[1] # 0

Schemes == {"rtsp://", "http://", "https://"}

\* ip_address.startsWith("rtsp://") || ...("http://") || ...("https://")
HasScheme(ip) == Len(ip) > 0 /\ Head(ip) \in Schemes

\* s.includes(tok)
Includes(s, tok) == \E i \in 1..Len(s) : s[i] = tok

\* s.replace(tok, by): the first occurrence only
ReplaceFirst(s, tok, by) ==
    IF Includes(s, tok)
    THEN LET i == CHOOSE k \in 1..Len(s) :
                      s[k] = tok /\ \A j \in 1..(k - 1) : s[j] # tok
         IN  SubSeq(s, 1, i - 1) \o by \o SubSeq(s, i + 1, Len(s))
    ELSE s

\* s.replace(/rtsp:\/\/(.*)@/, by): from the leftmost "rtsp://" that has an
\* "@" after it up to the last "@" (the group is greedy)
ReplaceCredentials(s, by) ==
    LET starts == {k \in 1..Len(s) :
                      s[k] = "rtsp://" /\ \E j \in (k + 1)..Len(s) : s[j] = "@"}
    IN  IF starts = {}
        THEN s
        ELSE LET i == CHOOSE k \in starts : \A m \in starts : k <= m
                 j == CHOOSE k \in 1..Len(s) :
                          s[k] = "@" /\ \A m \in (k + 1)..Len(s) : s[m] # "@"
             IN  SubSeq(s, 1, i - 1) \o by \o SubSeq(s, j + 1, Len(s))

AuthEither(username, password) ==
    IF TruthyStr(username) \/ TruthyStr(password)
    THEN (IF TruthyStr(username) THEN username[1] ELSE << >>) \o <<":">>
         \o (IF TruthyStr(password) THEN password[1] ELSE << >>) \o <<"@">>
    ELSE << >>

\* username && password ? `${username}:${password}@` : ""
Auth(username, password) ==
    IF TruthyStr(username) /\ TruthyStr(password)
    THEN username[1] \o <<":">> \o password[1] \o <<"@">>
    ELSE << >>

DefaultPort == 554

\* rtsp_port || 554
Port(rtsp_port) == IF TruthyNum(rtsp_port) THEN rtsp_port[1] ELSE DefaultPort

\* `${port}`: the decimal text of the port numbers in use
NumText(n) ==
    CASE n = 554 -> <<"554">>
      [] n = 8554 -> <<"8554">>
      [] OTHER -> <<"0">>

VendorPathFlat(camera_type) == <<"/stream">>

\* switch (camera_type) of generateStreamUrl and of getFullRtspUrl
VendorPath(camera_type) ==
    CASE camera_type = Some("hikvision") -> <<"/Streaming/Channels/101">>
      [] camera_type = Some("dahua") ->
             <<"/cam/realmonitor?channel=1&subtype=0">>
      [] camera_type = Some("onvif") -> <<"/onvif/stream1">>
      [] camera_type = Some("ip") -> <<"/stream1">>
      [] OTHER -> <<"/stream">>

\* `rtsp://${auth}${ip_address}:${port}${path}`
RtspUrl(auth, ip, port, path) ==
    <<"rtsp://">> \o auth \o ip \o <<":">> \o NumText(port) \o path

\* generateStreamUrl(cameraData) of the POST route
GenerateStreamUrl(d) ==
    LET ip == d.ip_address[1]
    IN  IF HasScheme(ip)
        THEN ip
        ELSE RtspUrl(Auth(d.username, d.password), ip, Port(d.rtsp_port),
                     IF TruthyStr(d.rtsp_path) THEN d.rtsp_path[1]
                     ELSE VendorPath(d.camera_type))

\* getFullRtspUrl of the latest revision of the camera model
GetFullRtspUrl(c) ==
    LET ip == c.ip_address[1]
        auth == c.username[1] \o <<":">> \o c.password[1] \o <<"@">>
    IN  IF HasScheme(ip)
        THEN IF TruthyStr(c.username) /\ TruthyStr(c.password)
             THEN IF Includes(ip, "@")
                  THEN ReplaceCredentials(ip, <<"rtsp://">> \o auth)
                  ELSE ReplaceFirst(ip, "rtsp://", <<"rtsp://">> \o auth)
             ELSE ip
        ELSE RtspUrl(Auth(c.username, c.password), ip, Port(c.rtsp_port),
                     IF TruthyStr(c.rtsp_path) THEN c.rtsp_path[1]
                     ELSE VendorPath(c.camera_type))

\* getDefaultRtspPath of the two earlier revisions of the camera model
GetDefaultRtspPath(c) ==
    IF c.camera_type \in {Some("hikvision"), Some("dahua"), Some("onvif"),
                          Some("ip")}
    THEN VendorPath(c.camera_type)
    ELSE IF TruthyStr(c.rtsp_path) THEN c.rtsp_path[1] ELSE <<"/stream">>

\* getFullRtspUrl of the first revision: credentials are put behind the
\* "rtsp://" of an address that has one
GetFullRtspUrlV1(c) ==
    LET ip == c.ip_address[1]
        auth == Auth(c.username, c.password)
    IN  IF TruthyStr(c.ip_address) /\ Len(ip) > 0 /\ Head(ip) = "rtsp://"
        THEN IF auth # << >>
             THEN ReplaceFirst(ip, "rtsp://", <<"rtsp://">> \o auth)
             ELSE ip
        ELSE RtspUrl(auth, ip, Port(c.rtsp_port),
                     IF TruthyStr(c.rtsp_path) THEN c.rtsp_path[1]
                     ELSE GetDefaultRtspPath(c))

\* getFullRtspUrl of the second revision: a leading "rtsp://" is cut off
GetFullRtspUrlV2(c) ==
    LET ip == c.ip_address[1]
        cleanIp == IF TruthyStr(c.ip_address) /\ Head(ip) = "rtsp://"
                   THEN Tail(ip) ELSE ip
    IN  RtspUrl(Auth(c.username, c.password), cleanIp, Port(c.rtsp_port),
                IF TruthyStr(c.rtsp_path) THEN c.rtsp_path[1]
                ELSE GetDefaultRtspPath(c))

Builds == {"v1", "v2", "v3"}

\* camera.getFullRtspUrl() of the revision the server is built with
Resolve(b, c) ==
    CASE b = "v1" -> GetFullRtspUrlV1(c)
      [] b = "v2" -> GetFullRtspUrlV2(c)
      [] OTHER -> GetFullRtspUrl(c)

ValidWithoutAddress(d) == TruthyStr(d.name) /\ TruthyStr(d.location)

\* !( !data.name || !data.ip_address || !data.location )
Valid(d) ==
    TruthyStr(d.name) /\ TruthyStr(d.ip_address) /\ TruthyStr(d.location)

CameraTypes == {"rtsp", "onvif", "hikvision", "dahua", "ip"}

\* validation of camera.save(): required strings are non-empty and
\* camera_type, when given, is one of the enum
SchemaAccepts(d) ==
    /\ TruthyStr(d.name) /\ TruthyStr(d.ip_address) /\ TruthyStr(d.location)
    /\ d.camera_type = None \/ d.camera_type[1] \in CameraTypes

\* new Camera(data): the schema defaults fill the undefined fields
Stored(d, url) ==
    [d EXCEPT !.camera_type = IF @ = None THEN Some("rtsp") ELSE @,
              !.rtsp_port = IF @ = None THEN Some(554) ELSE @,
              !.rtsp_path = IF @ = None THEN Some(<<"/stream">>) ELSE @,
              !.stream_url = Some(url)]

\* the request bodies POST /api/cameras is exercised with
Addresses ==
    { << >>,
      <<"10.0.0.5">>,
      <<"old", ":", "pw", "@", "10.0.0.5">>,
      <<"rtsp://", "cam.example/live">>,
      <<"rtsp://", "old", ":", "pw", "@", "cam.example/live">>,
      <<"http://", "cam.example/feed">> }

Vendors == {"hikvision", "dahua", "onvif", "ip", "rtsp", "axis"}

Opt(S) == {None} \cup {Some(v) : v \in S}

Descriptors ==
    [name : Opt({<<"Door">>}),
     ip_address : Opt(Addresses),
     location : {Some(<< >>), Some(<<"Lobby">>)},
     camera_type : Opt(Vendors),
     username : Opt({<<"admin">>}),
     password : Opt({<<"secret">>}),
     rtsp_port : Opt({0, 8554}),
     rtsp_path : Opt({<< >>, <<"/custom">>}),
     stream_url : Opt({<<"rtsp://", "given.example/s">>})]

NoDescriptor ==
    [name |-> None, ip_address |-> None, location |-> None,
     camera_type |-> None, username |-> None, password |-> None,
     rtsp_port |-> None, rtsp_path |-> None, stream_url |-> None]

CamIdle ==
    /\ build = "v3"
    /\ desc = NoDescriptor
    /\ cpc = "off"
    /\ posted = 0
    /\ streamUrl = None
    /\ saved = None
    /\ started = 0
    /\ pullUrl = None
    /\ probed = None
    /\ spawned = None

StreamInit ==
    /\ activeStreams = << >>
    /\ procs = << >>
    /\ files = [i \in Cams |-> NoFiles]
    /\ pc = [r \in Req |-> "idle"]
    /\ cam = [r \in Req |-> "cam1"]
    /\ own = [r \in Req |-> 0]
    /\ polls = [r \in Req |-> 0]
    /\ resp = [r \in Req |-> NoResp]
    /\ stopDuring = [r \in Req |-> FALSE]
    /\ stopped = 0
    /\ served = [path |-> << >>, status |-> 0]

\* no probe has been called
ProbeIdle ==
    /\ testProc = [i \in Probes |-> [st |-> "none", killed |-> FALSE]]
    /\ didResolve = [i \in Probes |-> FALSE]
    /\ timer = [i \in Probes |-> "none"]
    /\ resolved = [i \in Probes |-> << >>]
    /\ seen = [i \in Probes |-> << >>]

\* new StreamManager(): no stream, the sweep interval set
SmIdle ==
    /\ streams = << >>
    /\ now = 0
    /\ cleanupInterval = TRUE
    /\ lastOp = [op |-> "constructor", id |-> 0]

\* initializeCameraHealth(camera) of an online camera
HealthIdle ==
    /\ healthStatuses = [c \in {"cam1"} |->
                            [isHealthy |-> TRUE, consecutiveFailures |-> 0,
                             errorHistory |-> << >>]]
    /\ checks = 0
    /\ failedSince = 0
    /\ lastResult = "none"
    /\ errors = << >>

AuxIdle == ProbeIdle /\ SmIdle /\ HealthIdle

\* no camera is being created while the stream routes are exercised
Init == StreamInit /\ CamIdle /\ AuxIdle

\* ------------------------------------------------- GET /api/stream/{id}
\* A request arrives; verifyToken; then await checkFFmpegAvailable().
Begin(r, id, authed) ==
    /\ pc[r] \in {"idle", "done"}
    /\ cam' = [cam EXCEPT ![r] = id]
    /\ own' = [own EXCEPT ![r] = 0]
    /\ polls' = [polls EXCEPT ![r] = 0]
    /\ stopDuring' = [stopDuring EXCEPT ![r] = FALSE]
    /\ IF authed
       THEN /\ pc' = [pc EXCEPT ![r] = "avail"]
            /\ resp' = [resp EXCEPT ![r] = NoResp]
       ELSE /\ pc' = [pc EXCEPT ![r] = "done"]
            /\ resp' = [resp EXCEPT ![r] = Json(401)]
    /\ UNCHANGED <<activeStreams, procs, files, stopped, served>>
    /\ UNCHANGED <<camVars, auxVars>>

FFmpegCheckedIgnored(r, available) ==
    /\ pc[r] = "avail"
    /\ pc' = [pc EXCEPT ![r] = "lookup"]
    /\ UNCHANGED <<activeStreams, procs, files, cam, own, polls, resp,
                   stopDuring, stopped, served>>
    /\ UNCHANGED <<camVars, auxVars>>

\* `ffmpeg -version` has finished; then await connectToDatabase/findOne.
FFmpegChecked(r, available) ==
    /\ pc[r] = "avail"
    /\ IF available
       THEN /\ pc' = [pc EXCEPT ![r] = "lookup"]
            /\ resp' = resp
       ELSE /\ pc' = [pc EXCEPT ![r] = "done"]
            /\ resp' = [resp EXCEPT ![r] = ToolUnavailable]
    /\ UNCHANGED <<activeStreams, procs, files, cam, own, polls,
                   stopDuring, stopped, served>>
    /\ UNCHANGED <<camVars, auxVars>>

\* Camera.findOne has settled; the session map is consulted; the
\* connection probe is spawned and awaited when no session is running.
CameraLooked(r, outcome) ==
    /\ pc[r] = "lookup"
    /\ LET id == cam[r] IN
       CASE outcome = "dberror" ->
              /\ pc' = [pc EXCEPT ![r] = "done"]
              /\ resp' = [resp EXCEPT ![r] = Json(500)]
         [] outcome = "missing" ->
              /\ pc' = [pc EXCEPT ![r] = "done"]
              /\ resp' = [resp EXCEPT ![r] = Json(404)]
         [] outcome = "found" /\ StillRunning(activeStreams, procs, id) ->
              /\ pc' = [pc EXCEPT ![r] = "done"]
              /\ resp' = [resp EXCEPT ![r] = Active(activeStreams[id].hlsUrl)]
         [] outcome = "found" /\ ~StillRunning(activeStreams, procs, id) ->
              /\ pc' = [pc EXCEPT ![r] = "probe"]
              /\ resp' = resp
    /\ UNCHANGED <<activeStreams, procs, files, cam, own, polls,
                   stopDuring, stopped, served>>
    /\ UNCHANGED <<camVars, auxVars>>

\* What follows one file test of waitForFiles that ran after n sleeps, the
\* deadline having passed or not: return true, return false and clean up,
\* or sleep again.
AfterPoll(r, p, m, ps, expired) ==
    LET id == cam[r] IN
    IF HasFiles(files[id])
    THEN /\ pc' = [pc EXCEPT ![r] = "done"]
         /\ resp' = [resp EXCEPT ![r] = Active(HlsUrl(id))]
         /\ procs' = [ps EXCEPT ![p].ready = TRUE]
         /\ activeStreams' = m
    ELSE IF expired
    THEN /\ pc' = [pc EXCEPT ![r] = "done"]
         /\ resp' = [resp EXCEPT ![r] = Json(504)]
         /\ procs' = Kill(ps, p)
         /\ activeStreams' = MapDelete(m, id)
    ELSE /\ pc' = [pc EXCEPT ![r] = "poll"]
         /\ resp' = resp
         /\ procs' = ps
         /\ activeStreams' = m

\* testCameraConnection has resolved.  On success: startFFmpeg,
\* activeStreams.set and the first iteration of waitForFiles.
ProbeResolved(r, ok) ==
    /\ pc[r] = "probe"
    /\ IF ~ok
       THEN /\ pc' = [pc EXCEPT ![r] = "done"]
            /\ resp' = [resp EXCEPT ![r] = Json(400)]
            /\ UNCHANGED <<activeStreams, procs, files, own>>
       ELSE /\ Len(procs) < MaxProcs
            /\ LET id == cam[r]
                   p == Len(procs) + 1
                   ps == Append(procs, NewProc(id))
                   m == MapSet(activeStreams, id,
                               [ffmpeg |-> p, hlsUrl |-> HlsUrl(id)])
               IN /\ own' = [own EXCEPT ![r] = p]
                  /\ files' = [files EXCEPT ![id].dir = TRUE]
                  /\ AfterPoll(r, p, m, ps, FALSE)
    /\ UNCHANGED <<cam, polls, stopDuring, stopped, served>>
    /\ UNCHANGED <<camVars, auxVars>>

\* The 300 ms sleep of waitForFiles is over: next iteration.
Poll(r, late) ==
    /\ pc[r] = "poll"
    /\ polls[r] < MaxPolls
    /\ AfterPoll(r, own[r], activeStreams, procs,
                 late \/ polls[r] + 1 >= MaxPolls)
    /\ polls' = [polls EXCEPT ![r] = IF pc'[r] = "done" THEN 0 ELSE @ + 1]
    /\ UNCHANGED <<files, cam, own, stopDuring, stopped, served>>
    /\ UNCHANGED <<camVars, auxVars>>

\* --------------------------------------------- DELETE /api/stream/{id}
\* the request is starting a stream up: awaiting the connection probe or
\* the readiness wait
StartingUp(r) == pc[r] \in {"probe", "poll"}

DeleteEvery(id) ==
    /\ procs' = [p \in 1..Len(procs) |->
                    IF procs[p].alive THEN [procs[p] EXCEPT !.killed = TRUE,
                                                            !.alive = FALSE]
                    ELSE procs[p]]
    /\ activeStreams' = << >>
    /\ stopped' = 200
    /\ stopDuring' = [r \in Req |->
                        stopDuring[r] \/ (StartingUp(r) /\ cam[r] = id)]
    /\ UNCHANGED <<files, pc, cam, own, polls, resp, served>>
    /\ UNCHANGED <<camVars, auxVars>>

Delete(id) ==
    /\ IF id \in DOMAIN activeStreams
       THEN /\ procs' = Kill(procs, activeStreams[id].ffmpeg)
            /\ activeStreams' = MapDelete(activeStreams, id)
       ELSE UNCHANGED <<procs, activeStreams>>
    /\ stopped' = 200
    /\ stopDuring' = [r \in Req |->
                        stopDuring[r] \/ (StartingUp(r) /\ cam[r] = id)]
    /\ UNCHANGED <<files, pc, cam, own, polls, resp, served>>
    /\ UNCHANGED <<camVars, auxVars>>

\* ------------------------------------------------ the transcoder itself
\* ffmpeg writes the playlist (index.m3u8) of its camera directory.
WriteManifest(p) ==
    /\ p \in 1..Len(procs)
    /\ procs[p].alive
    /\ files[procs[p].id].manifest # "full"
    /\ \E v \in {"empty", "full"} :
          files' = [files EXCEPT ![procs[p].id].manifest = v]
    /\ UNCHANGED <<activeStreams, procs, pc, cam, own, polls, resp,
                   stopDuring, stopped, served>>
    /\ UNCHANGED <<camVars, auxVars>>

\* ffmpeg writes a segment_%03d.ts file.
WriteSegment(p) ==
    /\ p \in 1..Len(procs)
    /\ procs[p].alive
    /\ ~files[procs[p].id].seg
    /\ files' = [files EXCEPT ![procs[p].id].seg = TRUE]
    /\ UNCHANGED <<activeStreams, procs, pc, cam, own, polls, resp,
                   stopDuring, stopped, served>>
    /\ UNCHANGED <<camVars, auxVars>>

ProcExitRestart(p, code) ==
    /\ p \in 1..Len(procs)
    /\ procs[p].alive
    /\ Len(procs) < MaxProcs
    /\ procs' = Append([procs EXCEPT ![p].alive = FALSE, ![p].code = code],
                       NewProc(procs[p].id))
    /\ UNCHANGED <<activeStreams, files, pc, cam, own, polls, resp,
                   stopDuring, stopped, served>>
    /\ UNCHANGED <<camVars, auxVars>>

\* ffmpeg exits on its own; the close handler only logs.
ProcExit(p, code) ==
    /\ p \in 1..Len(procs)
    /\ procs[p].alive
    /\ procs' = [procs EXCEPT ![p].alive = FALSE, ![p].code = code]
    /\ UNCHANGED <<activeStreams, files, pc, cam, own, polls, resp,
                   stopDuring, stopped, served>>
    /\ UNCHANGED <<camVars, auxVars>>

\* --------------------------------------------- GET /api/media/live/...
\* The characters of the path segments the model uses.
Chars(s) ==
    CASE s = "app" -> <<"a", "p", "p">>
      [] s = "media" -> <<"m", "e", "d", "i", "a">>
      [] s = "live" -> <<"l", "i", "v", "e">>
      [] s = "live2" -> <<"l", "i", "v", "e", "2">>
      [] s = "cam1" -> <<"c", "a", "m", "1">>
      [] s = "cam2" -> <<"c", "a", "m", "2">>
      [] s = "index.m3u8" -> <<"i", ".", "m", "3", "u", "8">>
      [] s = "segment_000.ts" -> <<"s", ".", "t", "s">>
      [] s = "secret" -> <<"s", "e", "c">>
      [] OTHER -> <<s>>

\* the string of an absolute path: "/" before every segment
RECURSIVE Str(_)
Str(segs) ==
    IF segs = << >> THEN << >>
    ELSE <<"/">> \o Chars(Head(segs)) \o Str(Tail(segs))

\* String.prototype.startsWith
StartsWith(s, t) == Len(s) >= Len(t) /\ SubSeq(s, 1, Len(t)) = t

\* path.normalize of an absolute path: ".." removes the segment before it
\* (nothing at the root), "." and empty segments are dropped.
RECURSIVE Normalize(_, _)
Normalize(done, rest) ==
    IF rest = << >> THEN done
    ELSE LET s == Head(rest) IN
         IF s = ".."
         THEN Normalize(IF done = << >> THEN done
                        ELSE SubSeq(done, 1, Len(done) - 1), Tail(rest))
         ELSE IF s \in {".", ""} THEN Normalize(done, Tail(rest))
         ELSE Normalize(Append(done, s), Tail(rest))

\* path.join(process.cwd(), "media", "live")
MediaDir == <<"app", "media", "live">>

\* path.join(mediaDir, params.path.join("/"))
FullPath(path) == Normalize(<< >>, MediaDir \o path)

\* the directories and the regular files of the file system
DirsOf(f) ==
    {SubSeq(MediaDir, 1, n) : n \in 0..Len(MediaDir)}
        \cup {MediaDir \o <<c>> : c \in {d \in Cams : f[d].dir}}

FilesOf(f) ==
    {MediaDir \o <<c, "index.m3u8">> : c \in {d \in Cams : f[d].manifest # "absent"}}
        \cup {MediaDir \o <<c, "segment_000.ts">> : c \in {d \in Cams : f[d].seg}}

\* the status the handler answers with: 400 from the prefix check, 404
\* from fs.existsSync, 500 when fs.readFileSync throws (a directory), 200
ServeStatus(f, path) ==
    LET fullPath == FullPath(path) IN
    IF ~StartsWith(Str(fullPath), Str(MediaDir)) THEN 400
    ELSE IF fullPath \notin DirsOf(f) \cup FilesOf(f) THEN 404
    ELSE IF fullPath \in DirsOf(f) THEN 500
    ELSE 200

\* the params.path values requests are made with
ReqPaths ==
    { <<"cam1", "index.m3u8">>,
      <<"cam1", "segment_000.ts">>,
      <<"cam1">>,
      <<"cam2", "..", "cam1", "index.m3u8">>,
      <<"..", "live2", "index.m3u8">>,
      <<"..", "..", "secret">> }

DeliverDropping(path) ==
    /\ served' = [path |-> path, status |-> ServeStatus(files, path)]
    /\ activeStreams' = IF served'.status = 404
                        THEN MapDelete(activeStreams, Head(path))
                        ELSE activeStreams
    /\ UNCHANGED <<procs, files, pc, cam, own, polls, resp,
                   stopDuring, stopped>>
    /\ UNCHANGED <<camVars, auxVars>>

Deliver(path) ==
    /\ served' = [path |-> path, status |-> ServeStatus(files, path)]
    /\ UNCHANGED <<activeStreams, procs, files, pc, cam, own, polls, resp,
                   stopDuring, stopped>>
    /\ UNCHANGED <<camVars, auxVars>>

Next ==
    \/ \E r \in Req, id \in IDs, authed \in BOOLEAN : Begin(r, id, authed)
    \/ \E r \in Req, available \in BOOLEAN : FFmpegChecked(r, available)
    \/ \E r \in Req, o \in {"found", "missing", "dberror"} : CameraLooked(r, o)
    \/ \E r \in Req, ok \in BOOLEAN : ProbeResolved(r, ok)
    \/ \E r \in Req, late \in BOOLEAN : Poll(r, late)
    \/ \E id \in IDs : Delete(id)
    \/ \E p \in 1..MaxProcs : WriteManifest(p)
    \/ \E p \in 1..MaxProcs : WriteSegment(p)
    \/ \E p \in 1..MaxProcs, code \in {0, 1} : ProcExit(p, code)
    \/ \E path \in ReqPaths : Deliver(path)

Spec == Init /\ [][Next]_vars

\* ------------------------------------------- creating and starting a camera
\* One camera is created from a request body and then started once; the
\* session map is empty throughout, so the start takes the spawning branch.
CamInit ==
    /\ StreamInit
    /\ AuxIdle
    /\ build \in Builds
    /\ desc \in Descriptors
    /\ cpc = "new"
    /\ posted = 0
    /\ streamUrl = None
    /\ saved = None
    /\ started = 0
    /\ pullUrl = None
    /\ probed = None
    /\ spawned = None

\* POST /api/cameras.  generateStreamUrl throws on an undefined ip_address
\* and a failed connectToDatabase or save() throws too: all end in the
\* catch block's 500.
PostCamera(authed, dbUp) ==
    /\ cpc = "new"
    /\ cpc' = "posted"
    /\ IF ~authed
       THEN posted' = 401 /\ UNCHANGED <<streamUrl, saved>>
       ELSE IF ~Valid(desc)
       THEN posted' = 400 /\ UNCHANGED <<streamUrl, saved>>
       ELSE IF ~TruthyStr(desc.stream_url) /\ desc.ip_address = None
       THEN posted' = 500 /\ UNCHANGED <<streamUrl, saved>>
       ELSE LET url == IF TruthyStr(desc.stream_url)
                       THEN desc.stream_url[1]
                       ELSE GenerateStreamUrl(desc)
            IN  /\ streamUrl' = Some(url)
                /\ IF dbUp /\ SchemaAccepts(desc)
                   THEN posted' = 200 /\ saved' = Some(Stored(desc, url))
                   ELSE posted' = 500 /\ UNCHANGED saved
    /\ UNCHANGED <<activeStreams, procs, files, pc, cam, own, polls, resp,
                   stopDuring, stopped, served, build, desc, started,
                   pullUrl, probed, spawned>>
    /\ UNCHANGED auxVars

\* GET /api/stream/{id} up to the await of testCameraConnection(rtspUrl)
GetStream(authed, available) ==
    /\ cpc = "posted"
    /\ IF ~authed
       THEN started' = 401 /\ cpc' = "done" /\ UNCHANGED <<pullUrl, probed>>
       ELSE IF ~available
       THEN started' = 500 /\ cpc' = "done" /\ UNCHANGED <<pullUrl, probed>>
       ELSE IF saved = None
       THEN started' = 404 /\ cpc' = "done" /\ UNCHANGED <<pullUrl, probed>>
       ELSE /\ pullUrl' = Some(Resolve(build, saved[1]))
            /\ probed' = pullUrl'
            /\ cpc' = "probing"
            /\ UNCHANGED started
    /\ UNCHANGED <<activeStreams, procs, files, pc, cam, own, polls, resp,
                   stopDuring, stopped, served, build, desc, posted,
                   streamUrl, saved, spawned>>
    /\ UNCHANGED auxVars

\* the probe has closed: 400, or startFFmpeg(rtspUrl, id)
ProbeClosed(ok) ==
    /\ cpc = "probing"
    /\ IF ok
       THEN spawned' = pullUrl /\ cpc' = "spawned" /\ UNCHANGED started
       ELSE started' = 400 /\ cpc' = "done" /\ UNCHANGED spawned
    /\ UNCHANGED <<activeStreams, procs, files, pc, cam, own, polls, resp,
                   stopDuring, stopped, served, build, desc, posted,
                   streamUrl, saved, pullUrl, probed>>
    /\ UNCHANGED auxVars

CamNext ==
    \/ \E authed \in BOOLEAN, dbUp \in BOOLEAN : PostCamera(authed, dbUp)
    \/ \E authed \in BOOLEAN, available \in BOOLEAN :
           GetStream(authed, available)
    \/ \E ok \in BOOLEAN : ProbeClosed(ok)

SpecCamera == CamInit /\ [][CamNext]_vars

\* ------------------------------------------------- testCameraConnection
\* Each call spawns an ffmpeg child and arms an 8 s timer; the timer and
\* the child's close and error events are delivered in any order, each at
\* most once, and a cleared timer never fires.
CallProbe(i) ==
    /\ testProc[i].st = "none"
    /\ testProc' = [testProc EXCEPT ![i].st = "running"]
    /\ timer' = [timer EXCEPT ![i] = "armed"]
    /\ UNCHANGED <<didResolve, resolved, seen>>
    /\ UNCHANGED <<streamVars, camVars, smVars, healthVars>>

Delivered(i, kind) == \E k \in 1..Len(seen[i]) : seen[i][k].kind = kind

\* setTimeout callback
TimerFires(i) ==
    /\ timer[i] = "armed"
    /\ timer' = [timer EXCEPT ![i] = "fired"]
    /\ seen' = [seen EXCEPT ![i] = Append(@, [kind |-> "timer", code |-> -1])]
    /\ IF didResolve[i]
       THEN UNCHANGED <<didResolve, testProc, resolved>>
       ELSE /\ didResolve' = [didResolve EXCEPT ![i] = TRUE]
            /\ testProc' = [testProc EXCEPT
                               ![i].killed = @ \/ testProc[i].st = "running"]
            /\ resolved' = [resolved EXCEPT ![i] = Append(@, FALSE)]
    /\ UNCHANGED <<streamVars, camVars, smVars, healthVars>>

CloseUnguarded(i, code) ==
    /\ testProc[i].st \in {"running", "failed"}
    /\ ~Delivered(i, "close")
    /\ testProc[i].killed => code = -1
    /\ testProc' = [testProc EXCEPT ![i].st = "closed"]
    /\ seen' = [seen EXCEPT ![i] = Append(@, [kind |-> "close", code |-> code])]
    /\ didResolve' = [didResolve EXCEPT ![i] = TRUE]
    /\ timer' = [timer EXCEPT ![i] = IF @ = "armed" THEN "cleared" ELSE @]
    /\ resolved' = [resolved EXCEPT ![i] = Append(@, code = 0)]
    /\ UNCHANGED <<streamVars, camVars, smVars, healthVars>>

\* testProc.on("close", (code) => ...); a killed child closes with code null
Close(i, code) ==
    /\ testProc[i].st \in {"running", "failed"}
    /\ ~Delivered(i, "close")
    /\ testProc[i].killed => code = -1
    /\ testProc' = [testProc EXCEPT ![i].st = "closed"]
    /\ seen' = [seen EXCEPT ![i] = Append(@, [kind |-> "close", code |-> code])]
    /\ IF didResolve[i]
       THEN UNCHANGED <<didResolve, timer, resolved>>
       ELSE /\ didResolve' = [didResolve EXCEPT ![i] = TRUE]
            /\ timer' = [timer EXCEPT ![i] = IF @ = "armed" THEN "cleared"
                                             ELSE @]
            /\ resolved' = [resolved EXCEPT ![i] = Append(@, code = 0)]
    /\ UNCHANGED <<streamVars, camVars, smVars, healthVars>>

\* testProc.on("error", (err) => ...)
ProcError(i) ==
    /\ testProc[i].st \in {"running", "closed"}
    /\ ~Delivered(i, "error")
    /\ testProc' = [testProc EXCEPT
                       ![i].st = IF @ = "running" THEN "failed" ELSE @]
    /\ seen' = [seen EXCEPT ![i] = Append(@, [kind |-> "error", code |-> -1])]
    /\ IF didResolve[i]
       THEN UNCHANGED <<didResolve, timer, resolved>>
       ELSE /\ didResolve' = [didResolve EXCEPT ![i] = TRUE]
            /\ timer' = [timer EXCEPT ![i] = IF @ = "armed" THEN "cleared"
                                             ELSE @]
            /\ resolved' = [resolved EXCEPT ![i] = Append(@, FALSE)]
    /\ UNCHANGED <<streamVars, camVars, smVars, healthVars>>

ExitCodes == {-1, 0, 1}

ProbeNext ==
    \/ \E i \in Probes : CallProbe(i)
    \/ \E i \in Probes : TimerFires(i)
    \/ \E i \in Probes, code \in ExitCodes : Close(i, code)
    \/ \E i \in Probes : ProcError(i)

SpecProbe == Init /\ [][ProbeNext]_vars

\* ------------------------------------------------- client StreamManager
CameraIds == 1..(maxConcurrentStreams + 1)

\* this.streams.delete(cameraId)
Without(ss, id) == SelectSeq(ss, LAMBDA x : x.cameraId # id)

LeastRecentlyUsedAny(ss) ==
    IF ss = << >> THEN 0
    ELSE CHOOSE i \in 1..Len(ss) :
             /\ \A j \in 1..Len(ss) : ss[i].lastActivity <= ss[j].lastActivity
             /\ \A j \in 1..(i - 1) : ss[j].lastActivity > ss[i].lastActivity

\* the stream removeLeastRecentlyUsedStream picks: the first non-priority
\* stream of smallest lastActivity (0: there is none)
LeastRecentlyUsed(ss) ==
    LET np == {i \in 1..Len(ss) : ~ss[i].priority}
    IN  IF np = {} THEN 0
        ELSE CHOOSE i \in np :
                 /\ \A j \in np : ss[i].lastActivity <= ss[j].lastActivity
                 /\ \A j \in np : j < i
                        => ss[j].lastActivity > ss[i].lastActivity

\* addStream(config); `ok` is false when HLS is unsupported or hls.js throws
\* (nothing is stored then)
AddStream(id, priority, ok) ==
    LET lru == LeastRecentlyUsed(streams)
        s1 == IF Len(streams) >= maxConcurrentStreams /\ lru # 0
              THEN Without(streams, streams[lru].cameraId)
              ELSE streams
        s2 == Without(s1, id)
    IN  /\ streams' = IF ok
                      THEN Append(s2, [cameraId |-> id, isActive |-> TRUE,
                                       lastActivity |-> now,
                                       priority |-> priority])
                      ELSE s2
        /\ lastOp' = [op |-> "addStream", id |-> id]
        /\ UNCHANGED <<now, cleanupInterval>>
        /\ UNCHANGED <<streamVars, camVars, probeVars, healthVars>>

\* removeStream(cameraId)
RemoveStream(id) ==
    /\ streams' = Without(streams, id)
    /\ lastOp' = [op |-> "removeStream", id |-> id]
    /\ UNCHANGED <<now, cleanupInterval>>
    /\ UNCHANGED <<streamVars, camVars, probeVars, healthVars>>

\* updateStreamActivity(cameraId)
UpdateStreamActivity(id) ==
    /\ streams' = [i \in 1..Len(streams) |->
                      IF streams[i].cameraId = id
                      THEN [streams[i] EXCEPT !.lastActivity = now]
                      ELSE streams[i]]
    /\ lastOp' = [op |-> "updateStreamActivity", id |-> id]
    /\ UNCHANGED <<now, cleanupInterval>>
    /\ UNCHANGED <<streamVars, camVars, probeVars, healthVars>>

\* 5 * 60 * 1000 ms
inactiveThreshold == 5

\* the setInterval callback of startCleanupInterval
Sweep ==
    /\ cleanupInterval
    /\ streams' = SelectSeq(streams, LAMBDA x :
                     ~(~x.priority /\ now - x.lastActivity > inactiveThreshold))
    /\ lastOp' = [op |-> "sweep", id |-> 0]
    /\ UNCHANGED <<now, cleanupInterval>>
    /\ UNCHANGED <<streamVars, camVars, probeVars, healthVars>>

\* forceCleanup(): inactive streams and streams idle for more than a minute
ForceCleanup ==
    /\ streams' = SelectSeq(streams, LAMBDA x :
                     ~(~x.isActive \/ now - x.lastActivity > 1))
    /\ lastOp' = [op |-> "forceCleanup", id |-> 0]
    /\ UNCHANGED <<now, cleanupInterval>>
    /\ UNCHANGED <<streamVars, camVars, probeVars, healthVars>>

\* destroy()
Destroy ==
    /\ cleanupInterval' = FALSE
    /\ streams' = << >>
    /\ lastOp' = [op |-> "destroy", id |-> 0]
    /\ UNCHANGED now
    /\ UNCHANGED <<streamVars, camVars, probeVars, healthVars>>

\* a minute passes
Tick ==
    /\ now < MaxClock
    /\ now' = now + 1
    /\ UNCHANGED <<streams, cleanupInterval, lastOp>>
    /\ UNCHANGED <<streamVars, camVars, probeVars, healthVars>>

SmNext ==
    \/ \E id \in CameraIds, priority \in BOOLEAN, ok \in BOOLEAN :
           AddStream(id, priority, ok)
    \/ \E id \in CameraIds : RemoveStream(id)
    \/ \E id \in CameraIds : UpdateStreamActivity(id)
    \/ Sweep
    \/ ForceCleanup
    \/ Destroy
    \/ Tick

SpecManager == Init /\ [][SmNext]_vars

\* ------------------------------------------------------ useCameraHealth
\* the results performHealthCheck returns: a failure always carries an error
\* and one of these types
HealthResults ==
    {[success |-> TRUE, errorType |-> "none"]} \cup
    {[success |-> FALSE, errorType |-> t] : t \in {"connection", "timeout"}}

\* Array.prototype.slice(-n)
SliceLast(q, n) == IF Len(q) <= n THEN q ELSE SubSeq(q, Len(q) - n + 1, Len(q))

\* updateHealthStatus(cameraId, result); Date.now() is the index of the check
UpdateHealthStatus(cameraId, result) ==
    /\ checks < MaxChecks
    /\ cameraId \in DOMAIN healthStatuses
    /\ LET currentStatus == healthStatuses[cameraId]
           entry == [timestamp |-> checks + 1, type |-> result.errorType]
       IN  /\ healthStatuses' = [healthStatuses EXCEPT ![cameraId] =
                 [consecutiveFailures |->
                      IF result.success THEN 0
                      ELSE currentStatus.consecutiveFailures + 1,
                  isHealthy |->
                      result.success /\ currentStatus.consecutiveFailures < 3,
                  errorHistory |->
                      IF ~result.success
                      THEN Append(SliceLast(currentStatus.errorHistory, 9), entry)
                      ELSE currentStatus.errorHistory]]
           /\ errors' = IF result.success THEN errors ELSE Append(errors, entry)
    /\ checks' = checks + 1
    /\ failedSince' = IF result.success THEN 0 ELSE failedSince + 1
    /\ lastResult' = IF result.success THEN "success" ELSE "failure"
    /\ UNCHANGED <<streamVars, camVars, probeVars, smVars>>

HealthNext ==
    \E cameraId \in IDs, result \in HealthResults :
        UpdateHealthStatus(cameraId, result)

SpecHealth == Init /\ [][HealthNext]_vars

TypeOK ==
    /\ DOMAIN activeStreams \subseteq IDs
    /\ Len(procs) <= MaxProcs
    /\ \A r \in Req : own[r] \in 0..Len(procs)

\* ================================================================ claims
Procs == 1..Len(procs)

\* the transcoder the session map holds for a stream id (0: no session)
SessionProc(id) ==
    IF id \in DOMAIN activeStreams THEN activeStreams[id].ffmpeg ELSE 0

\* C1: two start requests that overlap for a stream id without a session
\* spawn exactly one transcoder: a stream id never has two live
\* transcoders at once.
C1_ExactlyOneSpawn ==
    \A p \in Procs, q \in Procs :
        procs[p].id = procs[q].id /\ procs[p].alive /\ procs[q].alive
            => p = q

\* C2: every live transcoder is the one the session map holds for its
\* stream id, so that a stop for that id reaches it.
C2_NoOrphanedProcess ==
    \A p \in Procs : procs[p].alive => SessionProc(procs[p].id) = p

\* C3: a readiness wait that ends without the files answers 504, its own
\* transcoder is no longer running and the map holds no session for the id.
C3_TimedOutCleansUp ==
    [][\A r \in Req :
          pc[r] = "poll" /\ pc'[r] = "done" /\ ~HasFiles(files[cam[r]])
              => /\ resp'[r] = Json(504)
                 /\ ~procs'[own[r]].alive
                 /\ cam[r] \notin DOMAIN activeStreams']_vars

C3_Witness ==
    \E r \in Req :
        /\ pc[r] = "done" /\ resp[r].status = 504
        /\ procs[own[r]].killed
        /\ cam[r] \notin DOMAIN activeStreams

\* C4: once the transcoder of a session has exited on its own with a
\* nonzero code, a start request for the stream id is not answered with
\* that session as active.
C4_CrashedSessionNotActive ==
    [][\A r \in Req :
          /\ pc[r] = "lookup"
          /\ SessionProc(cam[r]) # 0
          /\ procs[SessionProc(cam[r])].code > 0
          => resp'[r].status # 200]_vars

\* C5: when a stop for the stream id ran while a start request was
\* awaiting its connection probe or its readiness wait, the transcoder
\* that request spawned is not running once the request has completed.
C5_StopDuringStartTerminates ==
    \A r \in Req :
        pc[r] = "done" /\ stopDuring[r] /\ own[r] # 0
            => ~procs[own[r]].alive

\* a session of the map whose transcoder runs: Starting or Ready
StartingOrReady(id) == SessionProc(id) # 0 /\ procs[SessionProc(id)].alive

\* a session of the map whose readiness wait returned true
Ready(id) == SessionProc(id) # 0 /\ procs[SessionProc(id)].ready

\* C6: a start request that reaches the session map while the stream id
\* has a Starting or Ready session answers with that session's manifest
\* URL, spawns no transcoder and leaves the map as it is.
C6_StartIdempotent ==
    [][\A r \in Req :
          CameraLooked(r, "found") /\ StartingOrReady(cam[r])
              => /\ resp'[r] = Active(activeStreams[cam[r]].hlsUrl)
                 /\ pc'[r] = "done"
                 /\ procs' = procs
                 /\ activeStreams' = activeStreams]_vars

C6_Witness ==
    \E r \in Req :
        /\ pc[r] = "done" /\ resp[r].status = 200 /\ own[r] = 0
        /\ StartingOrReady(cam[r])
        /\ ~Ready(cam[r])

\* C7: a stop always reports success and leaves no session for the id, and
\* a stop for an id without a session changes neither the map, nor a
\* process, nor a file: a second stop has no effect.
C7_StopIdempotent ==
    [][\A id \in IDs :
          Delete(id)
              => /\ stopped' = 200
                 /\ id \notin DOMAIN activeStreams'
                 /\ id \notin DOMAIN activeStreams
                       => UNCHANGED <<activeStreams, procs, files>>]_vars

C7_Witness ==
    /\ stopped = 200
    /\ procs = << >>
    /\ activeStreams = << >>

\* is the segment sequence a a prefix of b
IsPrefix(a, b) == Len(a) <= Len(b) /\ SubSeq(b, 1, Len(a)) = a

\* the requested path has a parent-directory segment and resolves to a
\* place outside the directory of the stream it names
Escapes(path) ==
    /\ \E i \in 1..Len(path) : path[i] = ".."
    /\ ~IsPrefix(MediaDir \o <<Head(path)>>, FullPath(path))

\* C8: a delivery request whose path leaves the directory of the stream
\* it names through a parent-directory segment is answered 400, before
\* the file system is consulted.
C8_TraversalRejected ==
    served.path # << >> /\ Escapes(served.path) => served.status = 400

\* the session of the stream id has ended by stop or by readiness
\* timeout: a transcoder of the id was killed, none runs, the map has no
\* session for it
Ended(id) ==
    /\ id \notin DOMAIN activeStreams
    /\ \E p \in Procs : procs[p].id = id /\ procs[p].killed
    /\ \A p \in Procs : procs[p].id = id => ~procs[p].alive

\* C9: once the session of a stream id has ended by stop or by readiness
\* timeout, a delivery request for its manifest or a segment is answered
\* 404.
C9_EndedStreamNotFound ==
    [][\A id \in IDs, name \in {"index.m3u8", "segment_000.ts"} :
          Ended(id) /\ Deliver(<<id, name>>) => served'.status = 404]_vars

\* C10: a start request that reaches the session map while the stream id
\* has a Ready session completes at once with a positive answer: no
\* connection probe, no readiness poll, no spawn.
C10_ReadyReturnsImmediately ==
    [][\A r \in Req :
          CameraLooked(r, "found") /\ Ready(cam[r])
              => /\ pc'[r] = "done"
                 /\ resp'[r].status = 200
                 /\ Len(procs') = Len(procs)
                 /\ own'[r] = 0]_vars

C10_Witness ==
    \E r \in Req :
        /\ pc[r] = "done" /\ resp[r].status = 200 /\ own[r] = 0
        /\ Ready(cam[r])

\* C11: a start request is answered positively only when the manifest of
\* its stream is non-empty and a segment exists; a request that finds a
\* session still Starting waits for that.
C11_PositiveOnlyWhenReady ==
    \A r \in Req :
        pc[r] = "done" /\ resp[r].status = 200 => HasFiles(files[cam[r]])

\* C16: when ffmpeg is unavailable the request ends at once with an error
\* no other failure gives; no probe is awaited, no transcoder spawned and
\* the session map stays as it is.
C16_ToolUnavailableFailsFast ==
    [][\A r \in Req :
          /\ FFmpegChecked(r, FALSE)
                => /\ pc'[r] = "done"
                   /\ resp'[r] = ToolUnavailable
                   /\ own'[r] = 0
                   /\ UNCHANGED <<activeStreams, procs, files>>
          /\ resp'[r] = ToolUnavailable /\ resp[r] # ToolUnavailable
                => pc[r] = "avail"]_vars

C16_Witness ==
    \E r \in Req :
        /\ pc[r] = "done" /\ resp[r] = ToolUnavailable
        /\ activeStreams # << >>

\* C17: a start request that ends because the probe failed answers 400,
\* one that ends because the readiness wait timed out answers 504, and
\* after either the stream id has no session in the map and no live
\* transcoder.
C17_FailuresCleanedUpAlike ==
    [][\A r \in Req :
          pc[r] \in {"probe", "poll"} /\ pc'[r] = "done"
            /\ resp'[r].status # 200
              => /\ resp'[r].status = IF pc[r] = "probe" THEN 400 ELSE 504
                 /\ cam[r] \notin DOMAIN activeStreams'
                 /\ \A p \in 1..Len(procs') :
                       procs'[p].id = cam[r] => ~procs'[p].alive]_vars

\* C19: a delivery request, whatever its outcome, leaves the session map,
\* every transcoder and every artifact file as they were.
\* (`served` records the last delivery answer and only a delivery writes it.)
C19_DeliveryChangesNothing ==
    [][served' # served => UNCHANGED <<activeStreams, procs, files>>]_vars

C19_Witness ==
    /\ served.status \in {400, 404}
    /\ \E id \in IDs : StartingOrReady(id)

\* the requested path resolves into the directory of the stream it names
Inside(path) == IsPrefix(MediaDir \o <<Head(path)>>, FullPath(path))

\* C20: a delivery request is answered 404 exactly when its path stays in
\* the directory of its stream and names no existing file, and 400 exactly
\* when its path leaves that directory.
C20_NotFoundDistinctFromInvalid ==
    [][\A path \in ReqPaths :
          Deliver(path)
              => /\ served'.status = 404
                     <=> /\ Inside(path)
                         /\ FullPath(path) \notin DirsOf(files) \cup FilesOf(files)
                 /\ served'.status = 400 <=> ~Inside(path)]_vars

\* ------------------------------------------------- claims on pull URLs
\* the request body's address, and whether the POST handler generated the
\* stored stream URL itself
Address == desc.ip_address[1]

Generated == streamUrl # None /\ ~TruthyStr(desc.stream_url)

\* number of credential segments of a URL: one "@" closes each
Credentials(url) == Cardinality({i \in 1..Len(url) : url[i] = "@"})

\* the path of a constructed URL: what follows the port
PathOf(url) ==
    LET colon == CHOOSE k \in 1..Len(url) :
                     url[k] = ":" /\ \A m \in (k + 1)..Len(url) : url[m] # ":"
    IN  SubSeq(url, colon + 2, Len(url))

\* C12: an address that already has a scheme is the pull URL, and the
\* generated stream URL, unchanged, whatever else the descriptor holds.
C12_SchemeAddressUnchanged ==
    TruthyStr(desc.ip_address) /\ HasScheme(Address)
        => /\ pullUrl # None => pullUrl[1] = Address
           /\ Generated => streamUrl[1] = Address

BothGiven == TruthyStr(desc.username) /\ TruthyStr(desc.password)

OneGiven == TruthyStr(desc.username) # TruthyStr(desc.password)

Plain(ip) == ~HasScheme(ip) /\ ~Includes(ip, "@")

DocumentedPath(camera_type) ==
    CASE camera_type = Some("hikvision") -> <<"/Streaming/Channels/101">>
      [] camera_type = Some("dahua") ->
             <<"/cam/realmonitor?channel=1&subtype=0">>
      [] camera_type = Some("onvif") -> <<"/onvif/stream1">>
      [] camera_type = Some("ip") -> <<"/stream1">>
      [] OTHER -> <<"/stream">>

\* C14: for an address without a scheme the generated URL ends in the path
\* override when one is given and in the documented default of the camera
\* type otherwise.
C14_VendorPathOrOverride ==
    Generated /\ ~HasScheme(Address)
        => PathOf(streamUrl[1]) = IF TruthyStr(desc.rtsp_path)
                                  THEN desc.rtsp_path[1]
                                  ELSE DocumentedPath(desc.camera_type)

C14_Witness ==
    /\ Generated /\ ~HasScheme(Address)
    /\ desc.camera_type = Some("dahua") /\ ~TruthyStr(desc.rtsp_path)
    /\ PathOf(streamUrl[1]) = <<"/cam/realmonitor?channel=1&subtype=0">>

\* C15: the URL the transcoder is started with is the URL generateStreamUrl
\* computes for the same descriptor; for {10.0.0.5, hikvision} without
\* override and credentials it ends in /Streaming/Channels/101 and has no
\* credential segment.
C15_PullUrlIsGeneratedUrl ==
    spawned # None
        => /\ spawned[1] = GenerateStreamUrl(desc)
           /\ ( /\ Address = <<"10.0.0.5">>
                /\ desc.camera_type = Some("hikvision")
                /\ desc.rtsp_path = None
                /\ ~BothGiven )
                => /\ PathOf(spawned[1]) = <<"/Streaming/Channels/101">>
                   /\ Credentials(spawned[1]) = 0

\* C18: a descriptor with an empty (or missing) address is refused by the
\* create request with 400 when it is looked at, nothing is stored, and no
\* probe and no transcoder is ever started for it.
C18_EmptyAddressSpawnsNothing ==
    ~TruthyStr(desc.ip_address)
        => /\ posted \in {0, 400, 401}
           /\ saved = None
           /\ probed = None /\ spawned = None

C18_Witness ==
    /\ desc.ip_address = Some(<< >>)
    /\ posted = 400
    /\ cpc = "done" /\ started = 404

\* ------------------------------------------------------ idle sessions
\* The continuations of a start request run once their await settles: the
\* ffmpeg -version check, the camera lookup, the probe (8 s at most) and
\* each sleep of waitForFiles.  Requests and transcoder output or exit are
\* not forced to happen.
ServerStep(r) ==
    \/ \E available \in BOOLEAN : FFmpegChecked(r, available)
    \/ \E outcome \in {"found", "missing", "dberror"} :
           CameraLooked(r, outcome)
    \/ \E ok \in BOOLEAN : ProbeResolved(r, ok)
    \/ \E late \in BOOLEAN : Poll(r, late)

\* start and stop requests and the transcoders, without delivery requests
NextLive ==
    \/ \E r \in Req, id \in IDs, authed \in BOOLEAN : Begin(r, id, authed)
    \/ \E r \in Req : ServerStep(r)
    \/ \E id \in IDs : Delete(id)
    \/ \E p \in 1..MaxProcs : WriteManifest(p)
    \/ \E p \in 1..MaxProcs : WriteSegment(p)
    \/ \E p \in 1..MaxProcs, code \in {0, 1} : ProcExit(p, code)

SpecLive ==
    Init /\ [][NextLive]_vars /\ \A r \in Req : WF_vars(ServerStep(r))

\* a step of a start request (readiness gate) or a delivery
Activity == pc' # pc \/ served' # served

\* C21: unless start or delivery requests keep arriving, every session is
\* eventually stopped for good: its map entry is removed without any
\* request asking for it.
C21_IdleSessionSwept ==
    []<><<Activity>>_vars \/ <>[](activeStreams = << >>)

\* ------------------------------------------------- two stream ids at once
\* start and stop requests for both camera ids, and their transcoders
NextTwo ==
    \/ \E r \in Req, id \in Cams, authed \in BOOLEAN : Begin(r, id, authed)
    \/ \E r \in Req, available \in BOOLEAN : FFmpegChecked(r, available)
    \/ \E r \in Req, o \in {"found", "missing", "dberror"} : CameraLooked(r, o)
    \/ \E r \in Req, ok \in BOOLEAN : ProbeResolved(r, ok)
    \/ \E r \in Req, late \in BOOLEAN : Poll(r, late)
    \/ \E id \in Cams : Delete(id)
    \/ \E p \in 1..MaxProcs : WriteManifest(p)
    \/ \E p \in 1..MaxProcs : WriteSegment(p)
    \/ \E p \in 1..MaxProcs : ProcExit(p, 1)

SpecTwo == Init /\ [][NextTwo]_vars

\* the step belongs to a start request for stream id a or is a stop of a
OpOn(a) == (\E r \in Req : pc'[r] # pc[r] /\ cam'[r] = a) \/ Delete(a)

\* the session, the transcoders and the directory of stream id b are as
\* they were
Untouched(b) ==
    /\ (b \in DOMAIN activeStreams') = (b \in DOMAIN activeStreams)
    /\ b \in DOMAIN activeStreams => activeStreams'[b] = activeStreams[b]
    /\ \A p \in 1..Len(procs) : procs[p].id = b => procs'[p] = procs[p]
    /\ \A p \in (Len(procs) + 1)..Len(procs') : procs'[p].id # b
    /\ files'[b] = files[b]

\* C22: a step of a start request (lookup, probe, spawn, readiness wait,
\* timeout cleanup) or a stop for stream id a leaves the session, the
\* transcoders and the directory of every other stream id unchanged.
C22_StreamsIndependent ==
    [][\A a \in Cams : \A b \in Cams \ {a} : OpOn(a) => Untouched(b)]_vars

C22_Witness ==
    /\ "cam1" \notin DOMAIN activeStreams
    /\ \E p \in 1..Len(procs) : procs[p].id = "cam1" /\ procs[p].killed
    /\ "cam2" \in DOMAIN activeStreams
    /\ procs[activeStreams["cam2"].ffmpeg].alive

\* the transcoder a positive answer to request r stands for: the one the
\* request spawned, or the one of the session it found in the map
AnsweredProc(r) ==
    IF own'[r] # 0 THEN own'[r] ELSE activeStreams[cam[r]].ffmpeg

\* C23: a transcoder killed by a stop or by the readiness timeout is never
\* answered as active afterwards, and every session put into the map is
\* one around a transcoder spawned in that same step.
C23_KilledSessionIsTerminal ==
    [][/\ \A r \in Req :
              pc[r] # "done" /\ pc'[r] = "done" /\ resp'[r].status = 200
                  => ~procs'[AnsweredProc(r)].killed
       /\ \A id \in DOMAIN activeStreams' :
              (id \notin DOMAIN activeStreams
                   \/ activeStreams'[id] # activeStreams[id])
                  => /\ Len(procs') = Len(procs) + 1
                     /\ activeStreams'[id].ffmpeg = Len(procs')]_vars

\* C24: a transcoder is spawned only in the step of a start request whose
\* probe has succeeded, one per step, and a request spawns at most one
\* between its arrival and its answer; no exit, timeout or stop spawns.
C24_SpawnOnlyByStartRequest ==
    [][/\ Len(procs') >= Len(procs)
       /\ Len(procs') > Len(procs)
              => /\ Len(procs') = Len(procs) + 1
                 /\ \E r \in Req :
                        /\ pc[r] = "probe" /\ pc'[r] # "probe"
                        /\ own[r] = 0 /\ own'[r] = Len(procs')
                        /\ procs'[Len(procs')].id = cam[r]
       /\ \A r \in Req :
              own'[r] # own[r]
                  => \/ own'[r] = 0 /\ pc[r] \in {"idle", "done"}
                     \/ own[r] = 0 /\ own'[r] = Len(procs')
                           /\ Len(procs') = Len(procs) + 1]_vars

C24_Witness ==
    /\ Len(procs) = 1
    /\ ~procs[1].alive /\ procs[1].code = 1
    /\ \A r \in Req : pc[r] = "done"
    /\ \E r \in Req : resp[r].status = 504

\* the directory of a stream id holds a non-empty index.m3u8 and a .ts file
ManifestAndSegment(id) == files[id].manifest = "full" /\ files[id].seg

\* C25: the readiness wait answers ready only at a poll that finds a
\* non-empty manifest and a segment, answers timed out only at a poll that
\* does not find them, polls again otherwise, and always comes to an end.
C25_ReadinessWait ==
    /\ [][\A r \in Req :
              pc[r] \in {"probe", "poll"}
                  /\ (pc'[r] # pc[r] \/ polls'[r] # polls[r])
                  => /\ pc'[r] = "done" /\ resp'[r].status = 200
                           => ManifestAndSegment(cam[r])
                     /\ pc'[r] = "done" /\ resp'[r].status = 504
                           => ~ManifestAndSegment(cam[r])
                     /\ pc'[r] = "poll" => ~ManifestAndSegment(cam[r])]_vars
    /\ \A r \in Req : pc[r] = "poll" ~> pc[r] = "done"

C25_Witness ==
    \E r \in Req :
        /\ pc[r] = "poll" /\ polls[r] >= 1
        /\ files[cam[r]].manifest = "empty" /\ files[cam[r]].seg

\* C26: a newly spawned session is reported ready only on a manifest and a
\* segment its own transcoder produced: when every earlier transcoder of
\* the id has ended, the session is not reported ready in the step that
\* spawns its transcoder, which has produced nothing yet.
C26_ReadyOnOwnOutput ==
    [][\A r \in Req :
          /\ pc[r] = "probe" /\ Len(procs') > Len(procs)
          /\ \A p \in 1..Len(procs) : procs[p].id = cam[r] => ~procs[p].alive
          => ~(pc'[r] = "done" /\ resp'[r].status = 200)]_vars

\* C27: a probe resolves exactly once, with the first event delivered:
\* true only when that is the close event with exit code 0; when it is the
\* timer the child is killed; later events resolve nothing.
C27_ProbeResolvesOnce ==
    \A i \in Probes :
        /\ Len(resolved[i]) = IF seen[i] = << >> THEN 0 ELSE 1
        /\ seen[i] # << >>
             => /\ resolved[i][1]
                    = (seen[i][1].kind = "close" /\ seen[i][1].code = 0)
                /\ seen[i][1].kind = "timer" => testProc[i].killed
                /\ seen[i][1].kind # "timer" => ~testProc[i].killed

C27_Witness ==
    \E i \in Probes :
        /\ Len(seen[i]) = 3
        /\ seen[i][1].kind = "timer" /\ seen[i][2].kind = "close"
        /\ resolved[i] = <<FALSE>>

\* C28: the StreamManager never tracks more streams than
\* maxConcurrentStreams.
C28_AtMostMaxStreams == Len(streams) <= maxConcurrentStreams

PriorityTracked(id) ==
    \E i \in 1..Len(streams) : streams[i].cameraId = id /\ streams[i].priority

\* C29: a priority stream stops being tracked only in a removeStream or an
\* addStream for its own camera id, in forceCleanup or in destroy: never in
\* the eviction of an addStream for another id or in the sweep.
C29_PriorityNeverEvicted ==
    [][\A id \in CameraIds :
          /\ PriorityTracked(id)
          /\ \A i \in 1..Len(streams') : streams'[i].cameraId # id
          => \/ lastOp' \in {[op |-> "removeStream", id |-> id],
                             [op |-> "addStream", id |-> id]}
             \/ lastOp'.op \in {"forceCleanup", "destroy"}]_vars

C29_Witness ==
    /\ lastOp.op = "sweep"
    /\ Len(streams) >= maxConcurrentStreams
    /\ \E i \in 1..Len(streams) :
          streams[i].priority /\ now - streams[i].lastActivity > inactiveThreshold

\* C30: after any sequence of health-check results of a camera,
\* consecutiveFailures is the number of failed results since the last
\* successful one, the camera is healthy right after a successful check and
\* unhealthy right after a failed one, and errorHistory is the last 10 errors
\* at most, oldest dropped first.
C30_HealthTracksResults ==
    \A c \in DOMAIN healthStatuses :
        /\ healthStatuses[c].consecutiveFailures = failedSince
        /\ lastResult = "success" => healthStatuses[c].isHealthy
        /\ lastResult = "failure" => ~healthStatuses[c].isHealthy
        /\ Len(healthStatuses[c].errorHistory) <= 10
        /\ healthStatuses[c].errorHistory = SliceLast(errors, 10)

====
